---- MODULE Spec2Model ----
(***************************************************************************)
(* Model of the URL shortener's dual-index cache (src/src/main.rs): the    *)
(* two DashMaps cache_by_id and cache_by_url, the `urls` table behind the  *)
(* PgPool, the request handlers redirect and shorten, the cache sweeper    *)
(* clean_cache / prune_cache_if_needed and the store housekeeping task     *)
(* delete_expired_urls.                                                    *)
(*                                                                         *)
(* Time is counted in abstract clock ticks (Utc::now() is the variable     *)
(* now).  Handlers, the sweeper and the housekeeping task run in parallel  *)
(* (tokio multi-threaded runtime); every DashMap call and every SQL        *)
(* statement is one atomic step, and the steps of different tasks          *)
(* interleave freely.                                                      *)
(*                                                                         *)
(* Spec lets a request take any time; SpecTimely serves every request in   *)
(* less than a record's live-time; SpecSeq moreover serves the requests    *)
(* one after the other and keeps the history of the shorten calls;         *)
(* SpecFair takes the housekeeping task step by step and schedules the     *)
(* two background tasks fairly.                                            *)
(***************************************************************************)
EXTENDS Integers, FiniteSets, TLC

(* ------------------------------ bounds -------------------------------- *)

\* The clock stops advancing at MaxTime.
MaxTime == 3

\* Number of identifiers nanoid can mint in one run of the model.
MaxIds == 2

\* Number of requests the handlers accept in one run of the model.
MaxCalls == 3

(* ------------------------- program constants -------------------------- *)

\* chrono::Duration::hours(24), the live-time of a record, in clock ticks.
TTL == 2

\* const CACHE_MAX_SIZE: usize = 100, scaled to the model's key sets.
CACHE_MAX_SIZE == 1

(* ---------------------------- value sets ------------------------------ *)

IdNames == <<"id1", "id2", "id3", "id4">>

\* The identifiers: strings, like the URLs (both are Rust Strings).
Ids == {IdNames[i] : i \in 1..MaxIds}

\* The URLs posted to shorten.
Urls == {"u1", "u2"}

\* The concurrently running request-handling tasks.
Handlers == {"h1", "h2"}

\* struct Record { _id, _url, _expiration_date }
Record(id, url, exp) == [id |-> id, url |-> url, exp |-> exp]

\* The value of a handler's locals before they are assigned.
NoRecord == Record("", "", 0)

\* The outcomes of a handler: Result<Redirect, Status> and Result<String, Status>.
Reply(kind, val) == [kind |-> kind, val |-> val]

NoReply == Reply("none", "")

\* A finished shorten call: the record it handed back and whether it ran the
\* INSERT.
Call(rec, created) == [rec |-> rec, created |-> created]

NoCall == Call(NoRecord, FALSE)

VARIABLES
    now,            \* Utc::now()
    cache_by_id,    \* Cache.cache_by_id : id -> Record
    cache_by_url,   \* Cache.cache_by_url : url -> Record
    db,             \* the rows of table urls: a set of Records
    nextId,         \* how many identifiers nanoid has minted
    calls,          \* how many requests have been accepted
    pc,             \* pc[h]: where handler task h is
    arg,            \* arg[h]: the id (redirect) or url (shorten) of the request
    loc,            \* loc[h]: the handler's locals id, url, expiration_date
    res,            \* the reply this step sent to a caller (NoReply: none)
    late,           \* late[h]: the clock has ticked since h's request arrived
    swpc,           \* where the sweeper task clean_cache is
    swNow,          \* clean_cache's local `now`
    oldest_key,     \* prune_cache_if_needed's local oldest_key ("" is None)
    hkpc,           \* where the housekeeping task delete_expired_urls is
    last,           \* history: the latest successful shorten, as a Call
    prev            \* history: `last` as the running shorten found it when it began

vars == <<now, cache_by_id, cache_by_url, db, nextId, calls, pc, arg, loc, res, late,
          swpc, swNow, oldest_key, hkpc, last, prev>>

cacheVars == <<cache_by_id, cache_by_url>>
sweeperVars == <<swpc, swNow, oldest_key, hkpc>>
historyVars == <<last, prev>>

(* --------------------------- DashMap calls ---------------------------- *)

\* DashMap::new().
EmptyMap == [x \in {} |-> NoRecord]

\* DashMap::insert: insert or replace the entry under key k.
Insert(m, k, v) == [x \in DOMAIN m \cup {k} |-> IF x = k THEN v ELSE m[x]]

\* DashMap::remove.
Remove(m, k) == [x \in DOMAIN m \ {k} |-> m[x]]

\* DashMap::len.
Size(m) == Cardinality(DOMAIN m)

\* RetainLive with the test turned round: the expired entries are the ones kept.
RetainExpired(m, t) == [x \in {k \in DOMAIN m : m[k].exp < t} |-> m[x]]

\* DashMap::retain(|_, record| record._expiration_date > t)
RetainLive(m, t) == [x \in {k \in DOMAIN m : m[k].exp > t} |-> m[x]]

\* DashMap::retain(|_, record| record._id != key)
RetainOtherId(m, key) == [x \in {k \in DOMAIN m : m[k].id /= key} |-> m[x]]

\* OldestKeys with the scan started from no bound: the least expiration of all.
OldestOfAll(m, t) == {k \in DOMAIN m : \A j \in DOMAIN m : m[k].exp <= m[j].exp}

\* The scan of prune_cache_if_needed: the keys the loop can leave in
\* oldest_key when it starts from oldest_expiration = t.  The test is a strict
\* <, so the loop ends on an entry of least expiration among those before t;
\* DashMap iterates in no fixed order, so with ties it can be any of them.
\* No entry before t leaves oldest_key None (the empty set).
OldestKeys(m, t) ==
    {k \in DOMAIN m : /\ m[k].exp < t
                      /\ \A j \in DOMAIN m : m[k].exp <= m[j].exp}

(* ------------------------------ store --------------------------------- *)

\* SELECT url FROM urls WHERE id = $1
RowsById(id) == {r \in db : r.id = id}

\* SELECT id FROM urls WHERE url = $1, SELECT EXISTS(... WHERE url = $1)
RowsByUrl(url) == {r \in db : r.url = url}

\* The uniqueness constraint of table urls: an INSERT of a url (or id) the
\* table already holds is rejected.
UniqueViolation(id, url) == \E r \in db : r.id = id \/ r.url = url

\* DELETE FROM urls WHERE expiration_date < $1
AfterDelete(t) == {r \in db : ~(r.exp < t)}

(* ------------------------------- Init --------------------------------- *)

Init ==
    /\ now = 0
    /\ cache_by_id = EmptyMap
    /\ cache_by_url = EmptyMap
    /\ db = {}
    /\ nextId = 0
    /\ calls = 0
    /\ pc = [h \in Handlers |-> "idle"]
    /\ arg = [h \in Handlers |-> ""]
    /\ loc = [h \in Handlers |-> NoRecord]
    /\ res = NoReply
    /\ late = [h \in Handlers |-> FALSE]
    /\ swpc = "wait"
    /\ swNow = 0
    /\ oldest_key = ""
    /\ hkpc = "wait"
    /\ last = NoCall
    /\ prev = NoCall

(* ------------------------------ clock --------------------------------- *)

\* A step that sends no reply.
Silent == res' = NoReply

\* Time passes, however long the running requests have taken.
Tick ==
    /\ now < MaxTime
    /\ now' = now + 1
    /\ Silent
    /\ UNCHANGED <<cacheVars, db, nextId, calls, pc, arg, loc, late, sweeperVars, historyVars>>

\* Time passes, requests being served in less than the live-time of a record:
\* the clock ticks at most once while a request is served.
TickTimely ==
    /\ now < MaxTime
    /\ \A h \in Handlers : ~late[h]
    /\ now' = now + 1
    /\ late' = [h \in Handlers |-> pc[h] /= "idle"]
    /\ Silent
    /\ UNCHANGED <<cacheVars, db, nextId, calls, pc, arg, loc, sweeperVars, historyVars>>

(* ----------------------------- handlers ------------------------------- *)

\* The handler returns: its locals die, its reply goes to the caller.
Return(h, reply) ==
    /\ pc' = [pc EXCEPT ![h] = "idle"]
    /\ arg' = [arg EXCEPT ![h] = ""]
    /\ loc' = [loc EXCEPT ![h] = NoRecord]
    /\ late' = [late EXCEPT ![h] = FALSE]
    /\ res' = reply

\* The handler goes on to its next statement.
Goto(h, label) ==
    /\ pc' = [pc EXCEPT ![h] = label]
    /\ Silent
    /\ UNCHANGED <<arg, late>>

\* GET /<id> arrives at an idle task.
CallRedirect(h) ==
    /\ pc[h] = "idle"
    /\ calls < MaxCalls
    /\ calls' = calls + 1
    /\ \E id \in Ids :
        /\ arg' = [arg EXCEPT ![h] = id]
        /\ pc' = [pc EXCEPT ![h] = "r_cache"]
    /\ Silent
    /\ UNCHANGED <<now, cacheVars, db, nextId, loc, late, sweeperVars, historyVars>>

\* RedirectCache made to drop an expired entry it finds (lazy expiry).
RedirectCacheEvicting(h) ==
    /\ pc[h] = "r_cache"
    /\ IF arg[h] \in DOMAIN cache_by_id /\ cache_by_id[arg[h]].exp > now
          THEN /\ Return(h, Reply("Redirect", cache_by_id[arg[h]].url))
               /\ UNCHANGED cache_by_id
          ELSE /\ cache_by_id' = Remove(cache_by_id, arg[h])
               /\ Goto(h, "r_db")
               /\ UNCHANGED loc
    /\ UNCHANGED <<now, cache_by_url, db, nextId, calls, sweeperVars, historyVars>>

\* redirect, lines 77-80: the cache lookup by id.
RedirectCache(h) ==
    /\ pc[h] = "r_cache"
    /\ IF arg[h] \in DOMAIN cache_by_id
          THEN Return(h, Reply("Redirect", cache_by_id[arg[h]].url))
          ELSE Goto(h, "r_db") /\ UNCHANGED loc
    /\ UNCHANGED <<now, cacheVars, db, nextId, calls, sweeperVars, historyVars>>

\* RedirectQuery made to cache the miss as well (negative caching).
RedirectQueryNegative(h) ==
    /\ pc[h] = "r_db"
    /\ \/ \E r \in RowsById(arg[h]) :
            /\ loc' = [loc EXCEPT ![h] = Record(arg[h], r.url, 0)]
            /\ Goto(h, "r_fill")
            /\ UNCHANGED cache_by_id
       \/ /\ RowsById(arg[h]) = {}
          /\ cache_by_id' = Insert(cache_by_id, arg[h], Record(arg[h], "", now + TTL))
          /\ Return(h, Reply("NotFound", ""))
       \/ Return(h, Reply("InternalServerError", "")) /\ UNCHANGED cache_by_id
    /\ UNCHANGED <<now, cache_by_url, db, nextId, calls, sweeperVars, historyVars>>

\* redirect, lines 83-91: SELECT url FROM urls WHERE id = $1.
RedirectQuery(h) ==
    /\ pc[h] = "r_db"
    /\ \/ \E r \in RowsById(arg[h]) :
            /\ loc' = [loc EXCEPT ![h] = Record(arg[h], r.url, 0)]
            /\ Goto(h, "r_fill")
       \/ /\ RowsById(arg[h]) = {}
          /\ Return(h, Reply("NotFound", ""))
       \/ Return(h, Reply("InternalServerError", ""))
    /\ UNCHANGED <<now, cacheVars, db, nextId, calls, sweeperVars, historyVars>>

\* redirect, lines 94-102: the cache fill, into cache_by_id alone.
RedirectFill(h) ==
    /\ pc[h] = "r_fill"
    /\ cache_by_id' = Insert(cache_by_id, arg[h],
                             Record(arg[h], loc[h].url, now + TTL))
    /\ Return(h, Reply("Redirect", loc[h].url))
    /\ UNCHANGED <<now, cache_by_url, db, nextId, calls, sweeperVars, historyVars>>

\* POST / arrives at an idle task.
CallShortenStep(h) ==
    /\ pc[h] = "idle"
    /\ calls < MaxCalls
    /\ calls' = calls + 1
    /\ \E url \in Urls :
        /\ arg' = [arg EXCEPT ![h] = url]
        /\ pc' = [pc EXCEPT ![h] = "s_cache"]
    /\ Silent
    /\ UNCHANGED <<now, cacheVars, db, nextId, loc, late, sweeperVars>>

\* shorten, lines 128-131: the cache lookup by url.
ShortenCacheStep(h) ==
    /\ pc[h] = "s_cache"
    /\ IF arg[h] \in DOMAIN cache_by_url
          THEN Return(h, Reply("Ok", cache_by_url[arg[h]].id))
          ELSE Goto(h, "s_exists") /\ UNCHANGED loc
    /\ UNCHANGED <<now, cacheVars, db, nextId, calls, sweeperVars>>

\* shorten, lines 134-140 and 162-163: SELECT EXISTS(...); when the url is
\* new, nanoid mints the id and the expiration date is computed.
ShortenExists(h) ==
    /\ pc[h] = "s_exists"
    /\ \/ /\ RowsByUrl(arg[h]) /= {}
          /\ Goto(h, "s_select")
          /\ UNCHANGED <<loc, nextId>>
       \/ /\ RowsByUrl(arg[h]) = {}
          /\ nextId < MaxIds
          /\ nextId' = nextId + 1
          /\ loc' = [loc EXCEPT ![h] = Record(IdNames[nextId + 1], arg[h], now + TTL)]
          /\ Goto(h, "s_insert")
       \/ /\ Return(h, Reply("InternalServerError", ""))
          /\ UNCHANGED nextId
    /\ UNCHANGED <<now, cacheVars, db, calls, sweeperVars, historyVars>>

\* shorten, lines 142-146: SELECT id FROM urls WHERE url = $1 (fetch_one: no
\* row left is an error like any other).
ShortenSelect(h) ==
    /\ pc[h] = "s_select"
    /\ \/ \E r \in RowsByUrl(arg[h]) :
            /\ loc' = [loc EXCEPT ![h] = Record(r.id, arg[h], 0)]
            /\ Goto(h, "s_reuse_id")
       \/ Return(h, Reply("InternalServerError", ""))
    /\ UNCHANGED <<now, cacheVars, db, nextId, calls, sweeperVars, historyVars>>

\* ShortenReuseById made to insert the record under the url instead of the id.
ShortenReuseByIdUnderUrl(h) ==
    /\ pc[h] = "s_reuse_id"
    /\ LET record == Record(loc[h].id, arg[h], now + TTL) IN
        /\ loc' = [loc EXCEPT ![h] = record]
        /\ cache_by_id' = Insert(cache_by_id, arg[h], record)
    /\ Goto(h, "s_reuse_url")
    /\ UNCHANGED <<now, cache_by_url, db, nextId, calls, sweeperVars, historyVars>>

\* shorten, lines 149-155: the expiration date and the insert by id.
ShortenReuseById(h) ==
    /\ pc[h] = "s_reuse_id"
    /\ LET record == Record(loc[h].id, arg[h], now + TTL) IN
        /\ loc' = [loc EXCEPT ![h] = record]
        /\ cache_by_id' = Insert(cache_by_id, record.id, record)
    /\ Goto(h, "s_reuse_url")
    /\ UNCHANGED <<now, cache_by_url, db, nextId, calls, sweeperVars, historyVars>>

\* shorten, lines 156-158: the insert by url of the reused mapping, and the reply.
ShortenReuseByUrlStep(h) ==
    /\ pc[h] = "s_reuse_url"
    /\ cache_by_url' = Insert(cache_by_url, arg[h], loc[h])
    /\ Return(h, Reply("Ok", loc[h].id))
    /\ UNCHANGED <<now, cache_by_id, db, nextId, calls, sweeperVars>>

\* ShortenInsert made to cache the record before the INSERT's outcome is known.
ShortenInsertCaching(h) ==
    /\ pc[h] = "s_insert"
    /\ cache_by_id' = Insert(cache_by_id, loc[h].id, loc[h])
    /\ \/ /\ ~UniqueViolation(loc[h].id, loc[h].url)
          /\ db' = db \cup {loc[h]}
          /\ Goto(h, "s_new_id")
          /\ UNCHANGED loc
       \/ /\ Return(h, Reply("InternalServerError", ""))
          /\ UNCHANGED db
    /\ UNCHANGED <<now, cache_by_url, nextId, calls, sweeperVars, historyVars>>

\* shorten, lines 164-170: INSERT INTO urls.
ShortenInsert(h) ==
    /\ pc[h] = "s_insert"
    /\ \/ /\ ~UniqueViolation(loc[h].id, loc[h].url)
          /\ db' = db \cup {loc[h]}
          /\ Goto(h, "s_new_id")
          /\ UNCHANGED loc
       \/ /\ Return(h, Reply("InternalServerError", ""))
          /\ UNCHANGED db
    /\ UNCHANGED <<now, cacheVars, nextId, calls, sweeperVars, historyVars>>

\* shorten, line 178: the insert by id of the new record.
ShortenNewById(h) ==
    /\ pc[h] = "s_new_id"
    /\ cache_by_id' = Insert(cache_by_id, loc[h].id, loc[h])
    /\ Goto(h, "s_new_url")
    /\ UNCHANGED <<now, cache_by_url, db, nextId, calls, loc, sweeperVars, historyVars>>

\* shorten, lines 179-181: the insert by url of the new record, and the reply.
ShortenNewByUrlStep(h) ==
    /\ pc[h] = "s_new_url"
    /\ cache_by_url' = Insert(cache_by_url, arg[h], loc[h])
    /\ Return(h, Reply("Ok", loc[h].id))
    /\ UNCHANGED <<now, cache_by_id, db, nextId, calls, sweeperVars>>

\* The handlers' steps when the history of shorten is not kept.
CallShorten(h) == CallShortenStep(h) /\ UNCHANGED historyVars

ShortenCache(h) == ShortenCacheStep(h) /\ UNCHANGED historyVars

ShortenReuseByUrl(h) == ShortenReuseByUrlStep(h) /\ UNCHANGED historyVars

ShortenNewByUrl(h) == ShortenNewByUrlStep(h) /\ UNCHANGED historyVars

(* ------------------------ store housekeeping -------------------------- *)

\* delete_expired_urls, lines 192-199: one tick; a failed DELETE is logged.
\* The tick, the DELETE and the log taken as one step: the task shares nothing
\* with the others but the table.
DeleteExpired ==
    /\ \/ db' = AfterDelete(now)
       \/ UNCHANGED db
    /\ Silent
    /\ UNCHANGED <<now, cacheVars, nextId, calls, pc, arg, loc, late, sweeperVars, historyVars>>

\* What no step of the housekeeping task touches.
HousekeepingFrame ==
    /\ Silent
    /\ UNCHANGED <<now, cacheVars, nextId, calls, pc, arg, loc, late,
                   swpc, swNow, oldest_key, historyVars>>

\* delete_expired_urls, line 192: interval.tick().await returns.
HousekeepingTick ==
    /\ hkpc = "wait"
    /\ hkpc' = "delete"
    /\ HousekeepingFrame
    /\ UNCHANGED db

\* HousekeepingDelete with the error of the DELETE propagated: the task ends.
HousekeepingDeleteFatal ==
    /\ hkpc = "delete"
    /\ \/ db' = AfterDelete(now) /\ hkpc' = "wait"
       \/ UNCHANGED db /\ hkpc' = "stopped"
    /\ HousekeepingFrame

\* delete_expired_urls, lines 193-197: the DELETE succeeds, or fails and
\* leaves the table as it was.
HousekeepingDelete ==
    /\ hkpc = "delete"
    /\ \/ db' = AfterDelete(now) /\ hkpc' = "wait"
       \/ UNCHANGED db /\ hkpc' = "failed"
    /\ HousekeepingFrame

\* delete_expired_urls, line 198: the failure is logged and the loop goes on.
HousekeepingLog ==
    /\ hkpc = "failed"
    /\ hkpc' = "wait"
    /\ HousekeepingFrame
    /\ UNCHANGED db

Housekeeping == HousekeepingTick \/ HousekeepingDelete \/ HousekeepingLog

(* --------------------------- cache sweeper ---------------------------- *)

\* What no sweeper step touches.
SweeperFrame ==
    /\ Silent
    /\ UNCHANGED <<now, db, nextId, calls, pc, arg, loc, late, hkpc, historyVars>>

\* clean_cache, lines 213-214: the timer fires and now is sampled.
SweepTick ==
    /\ swpc = "wait"
    /\ swNow' = now
    /\ swpc' = "retain_id"
    /\ SweeperFrame
    /\ UNCHANGED <<cacheVars, oldest_key>>

\* clean_cache, lines 217-219.
SweepRetainById ==
    /\ swpc = "retain_id"
    /\ cache_by_id' = RetainLive(cache_by_id, swNow)
    /\ swpc' = "retain_url"
    /\ SweeperFrame
    /\ UNCHANGED <<cache_by_url, swNow, oldest_key>>

\* clean_cache, lines 222-224.
SweepRetainByUrl ==
    /\ swpc = "retain_url"
    /\ cache_by_url' = RetainLive(cache_by_url, swNow)
    /\ swpc' = "prune_id"
    /\ SweeperFrame
    /\ UNCHANGED <<cache_by_id, swNow, oldest_key>>

\* prune_cache_if_needed, lines 237-251: the size test and the scan of
\* cache_by_id.
PruneIdScan ==
    /\ swpc = "prune_id"
    /\ IF Size(cache_by_id) > CACHE_MAX_SIZE /\ OldestKeys(cache_by_id, now) /= {}
          THEN /\ oldest_key' \in OldestKeys(cache_by_id, now)
               /\ swpc' = "prune_id_remove"
          ELSE /\ oldest_key' = ""
               /\ swpc' = "prune_url"
    /\ SweeperFrame
    /\ UNCHANGED <<cacheVars, swNow>>

\* prune_cache_if_needed, line 252.
PruneIdRemove ==
    /\ swpc = "prune_id_remove"
    /\ cache_by_id' = Remove(cache_by_id, oldest_key)
    /\ swpc' = "prune_id_retain"
    /\ SweeperFrame
    /\ UNCHANGED <<cache_by_url, swNow, oldest_key>>

\* prune_cache_if_needed, line 254.
PruneIdRetain ==
    /\ swpc = "prune_id_retain"
    /\ cache_by_url' = RetainOtherId(cache_by_url, oldest_key)
    /\ swpc' = "prune_url"
    /\ oldest_key' = ""
    /\ SweeperFrame
    /\ UNCHANGED <<cache_by_id, swNow>>

\* prune_cache_if_needed, lines 258-269: the size test and the scan of
\* cache_by_url.
PruneUrlScan ==
    /\ swpc = "prune_url"
    /\ IF Size(cache_by_url) > CACHE_MAX_SIZE /\ OldestKeys(cache_by_url, now) /= {}
          THEN /\ oldest_key' \in OldestKeys(cache_by_url, now)
               /\ swpc' = "prune_url_remove"
          ELSE /\ oldest_key' = ""
               /\ swpc' = "wait"
    /\ swNow' = IF swpc' = "wait" THEN 0 ELSE swNow
    /\ SweeperFrame
    /\ UNCHANGED cacheVars

\* prune_cache_if_needed, line 270.
PruneUrlRemove ==
    /\ swpc = "prune_url_remove"
    /\ cache_by_url' = Remove(cache_by_url, oldest_key)
    /\ swpc' = "prune_url_retain"
    /\ SweeperFrame
    /\ UNCHANGED <<cache_by_id, swNow, oldest_key>>

\* prune_cache_if_needed, line 271: the key compared with the ids is a url.
PruneUrlRetain ==
    /\ swpc = "prune_url_retain"
    /\ cache_by_url' = RetainOtherId(cache_by_url, oldest_key)
    /\ swpc' = "wait"
    /\ oldest_key' = ""
    /\ swNow' = 0
    /\ SweeperFrame
    /\ UNCHANGED cache_by_id

(* ------------------------- the specification -------------------------- *)

Redirect(h) == RedirectCache(h) \/ RedirectQuery(h) \/ RedirectFill(h)

Shorten(h) ==
    \/ ShortenCache(h) \/ ShortenExists(h) \/ ShortenSelect(h)
    \/ ShortenReuseById(h) \/ ShortenReuseByUrl(h)
    \/ ShortenInsert(h) \/ ShortenNewById(h) \/ ShortenNewByUrl(h)

Sweeper ==
    \/ SweepTick \/ SweepRetainById \/ SweepRetainByUrl
    \/ PruneIdScan \/ PruneIdRemove \/ PruneIdRetain
    \/ PruneUrlScan \/ PruneUrlRemove \/ PruneUrlRetain

Next ==
    \/ Tick
    \/ \E h \in Handlers : CallRedirect(h) \/ CallShorten(h) \/ Redirect(h) \/ Shorten(h)
    \/ DeleteExpired
    \/ Sweeper

Spec == Init /\ [][Next]_vars

\* The same tasks, every request served in less than a record's live-time.
NextTimely ==
    \/ TickTimely
    \/ \E h \in Handlers : CallRedirect(h) \/ CallShorten(h) \/ Redirect(h) \/ Shorten(h)
    \/ DeleteExpired
    \/ Sweeper

SpecTimely == Init /\ [][NextTimely]_vars


(* ---------------- requests served one after the other ----------------- *)

\* No request is being served.
AllIdle == \A h \in Handlers : pc[h] = "idle"

\* A request arrives only after the one before it has returned.
CallRedirectSeq(h) == AllIdle /\ CallRedirect(h)

\* shorten begins: the history notes the latest finished shorten when it was
\* for the same url and its record has not expired yet.
CallShortenSeq(h) ==
    /\ AllIdle
    /\ CallShortenStep(h)
    /\ prev' = IF last.rec.url = arg'[h] /\ now < last.rec.exp THEN last ELSE NoCall
    /\ UNCHANGED last

ShortenCacheSeq(h) ==
    /\ ShortenCacheStep(h)
    /\ last' = IF arg[h] \in DOMAIN cache_by_url
                  THEN Call(cache_by_url[arg[h]], FALSE) ELSE last
    /\ UNCHANGED prev

ShortenReuseByUrlSeq(h) ==
    /\ ShortenReuseByUrlStep(h)
    /\ last' = Call(loc[h], FALSE)
    /\ UNCHANGED prev

ShortenNewByUrlSeq(h) ==
    /\ ShortenNewByUrlStep(h)
    /\ last' = Call(loc[h], TRUE)
    /\ UNCHANGED prev

ShortenSeq(h) ==
    \/ ShortenCacheSeq(h) \/ ShortenExists(h) \/ ShortenSelect(h)
    \/ ShortenReuseById(h) \/ ShortenReuseByUrlSeq(h)
    \/ ShortenInsert(h) \/ ShortenNewById(h) \/ ShortenNewByUrlSeq(h)

NextSeq ==
    \/ TickTimely
    \/ \E h \in Handlers :
          CallRedirectSeq(h) \/ CallShortenSeq(h) \/ Redirect(h) \/ ShortenSeq(h)
    \/ DeleteExpired
    \/ Sweeper

SpecSeq == Init /\ [][NextSeq]_vars

(* ------------------- the background tasks scheduled ------------------- *)

\* POST / arrives after the request before it has returned.
CallShortenAlone(h) == AllIdle /\ CallShorten(h)

\* The tasks of main with the housekeeping task taken step by step, requests
\* served one after the other.
NextFair ==
    \/ TickTimely
    \/ \E h \in Handlers :
          CallRedirectSeq(h) \/ CallShortenAlone(h) \/ Redirect(h) \/ Shorten(h)
    \/ Housekeeping
    \/ Sweeper

\* tokio runs every spawned task that can run and fires every interval: a
\* step of the housekeeping task or of the sweeper that stays possible is
\* taken.
Fairness ==
    /\ WF_vars(HousekeepingTick)
    /\ WF_vars(HousekeepingDelete)
    /\ WF_vars(HousekeepingLog)
    /\ WF_vars(Sweeper)

SpecFair == Init /\ [][NextFair]_vars /\ Fairness

(* ------------------------------ claims -------------------------------- *)

\* The records an index holds.
Records(m) == {m[k] : k \in DOMAIN m}

\* An upsert (the two inserts of shorten) is between its two inserts.
UpsertMidway == \E h \in Handlers : pc[h] \in {"s_reuse_url", "s_new_url"}

\* C1: whenever no handler call and no sweeper tick is midway, every record
\* of the identifier-index has a value-equal twin (same id, locator and
\* expiration) in the locator-index.
C1_TwinInLocatorIndex ==
    (AllIdle /\ swpc = "wait") =>
        \A r \in Records(cache_by_id) :
            r.url \in DOMAIN cache_by_url /\ cache_by_url[r.url] = r

\* C2: whenever redirect or shorten answers from the cache, the expiration
\* of the cached record it answers with is not before the current time.
C2_NoExpiredHit ==
    [][\A h \in Handlers :
          /\ (pc[h] = "r_cache" /\ pc'[h] = "idle") => cache_by_id[arg[h]].exp >= now
          /\ (pc[h] = "s_cache" /\ pc'[h] = "idle") => cache_by_url[arg[h]].exp >= now
      ]_vars

\* C3: at the end of every sweeper tick each index holds at most
\* CACHE_MAX_SIZE entries.
C3_BoundAfterTick ==
    [][(swpc /= "wait" /\ swpc' = "wait") =>
          /\ Size(cache_by_id') <= CACHE_MAX_SIZE
          /\ Size(cache_by_url') <= CACHE_MAX_SIZE
      ]_vars

\* The index is over its maximum and its entries' expirations are distinct.
OverDistinct(m) ==
    /\ Size(m) > CACHE_MAX_SIZE
    /\ \A j, k \in DOMAIN m : j /= k => m[j].exp /= m[k].exp

\* The key of the entry with the smallest expiration.
Smallest(m) == CHOOSE k \in DOMAIN m : \A j \in DOMAIN m : m[k].exp <= m[j].exp

\* C4: when the sweeper finds an index over its maximum and the expirations
\* are distinct, the entry it picks for removal is the one with the smallest
\* expiration, and once the removal is done that entry is in neither index.
C4_EvictsSmallestFirst ==
    [][/\ (swpc = "prune_id" /\ swpc' /= swpc /\ OverDistinct(cache_by_id)) =>
              oldest_key' = Smallest(cache_by_id)
       /\ (swpc = "prune_url" /\ swpc' /= swpc /\ OverDistinct(cache_by_url)) =>
              oldest_key' = Smallest(cache_by_url)
       /\ (swpc = "prune_id_retain" /\ swpc' /= swpc) =>
              /\ oldest_key \notin DOMAIN cache_by_id'
              /\ \A r \in Records(cache_by_url') : r.id /= oldest_key
       /\ (swpc = "prune_url_retain" /\ swpc' /= swpc) =>
              /\ oldest_key \notin DOMAIN cache_by_url'
              /\ \A r \in Records(cache_by_id') : r.url /= oldest_key
      ]_vars

\* C5: a shorten that begins after a shorten of the same url has returned,
\* and before the record that call handed back expires, returns the same
\* id, the two calls run at most one INSERT between them, and (while the
\* record is still unexpired) the store holds exactly one row for the url.
C5_DedupIdempotent ==
    [][\A h \in Handlers :
          (/\ pc[h] \in {"s_cache", "s_reuse_url", "s_new_url"}
           /\ pc'[h] = "idle"
           /\ prev /= NoCall)
          => /\ res'.val = prev.rec.id
             /\ ~(prev.created /\ last'.created)
             /\ now < prev.rec.exp =>
                   Cardinality({r \in db' : r.url = arg[h]}) = 1
      ]_vars

\* The unexpired records of the cache.
LiveCached == {r \in Records(cache_by_id) \cup Records(cache_by_url) : r.exp > now}

\* C6: the unexpired records of the two indices never include two records
\* with the same locator and different ids.
C6_OneIdPerLocator ==
    \A r1, r2 \in LiveCached : r1.url = r2.url => r1.id = r2.id

\* The record is the one a shorten is creating: inserted in the store or
\* about to be, not yet returned.
BeingCreated(r) ==
    \E h \in Handlers : pc[h] \in {"s_insert", "s_new_id", "s_new_url"} /\ loc[h] = r

\* C7: outside a write that is creating the mapping, every record of either
\* index is held by the store (a row with the same id and locator).
C7_CacheWithinStore ==
    \A r \in Records(cache_by_id) \cup Records(cache_by_url) :
        BeingCreated(r) \/ \E d \in db : d.id = r.id /\ d.url = r.url

\* The records that shorten's upsert put in both indices and that both
\* indices still yield.
Upserted ==
    {r \in Records(cache_by_url) :
        /\ r.id \in DOMAIN cache_by_id /\ cache_by_id[r.id] = r
        /\ cache_by_url[r.url] = r}

\* C8: once both indices yield the upserted record R, every step other than a
\* sweeper step leaves both yielding exactly R, as long as R has not expired.
C8_RoundTrip ==
    [][\A r \in Upserted :
          (swpc' = swpc /\ r.exp > now') =>
              /\ r.id \in DOMAIN cache_by_id' /\ cache_by_id'[r.id] = r
              /\ r.url \in DOMAIN cache_by_url' /\ cache_by_url'[r.url] = r
      ]_vars

\* C9: whenever no upsert and no sweeper tick is midway, every entry of the
\* locator-index carries an id that is a key of the identifier-index.
C9_LocatorRefersToKnownId ==
    (~UpsertMidway /\ swpc = "wait") =>
        \A r \in Records(cache_by_url) : r.id \in DOMAIN cache_by_id

\* C10: the expiration stored for an id in an index never decreases from one
\* state to the next while the entry stays present.
C10_ExpiryNeverDecreases ==
    [][/\ \A id \in DOMAIN cache_by_id \cap DOMAIN cache_by_id' :
              cache_by_id'[id].exp >= cache_by_id[id].exp
       /\ \A u \in DOMAIN cache_by_url \cap DOMAIN cache_by_url' :
              cache_by_url'[u].id = cache_by_url[u].id =>
                  cache_by_url'[u].exp >= cache_by_url[u].exp
      ]_vars

\* A handler task takes a step.
Steps(h) == pc'[h] /= pc[h]

\* C11: a redirect that misses the cache and whose SELECT finds no row
\* answers NotFound, and that call leaves both indices as they were: the
\* only step of the call since its cache miss is the one that answers, and
\* it changes neither index.
C11_NotFoundLeavesCache ==
    [][\A h \in Handlers :
          /\ (pc[h] = "r_db" /\ Steps(h) /\ res'.kind = "NotFound")
                => UNCHANGED cacheVars
          /\ (pc[h] = "r_db" /\ Steps(h) /\ RowsById(arg[h]) = {})
                => /\ res'.kind \in {"NotFound", "InternalServerError"}
                   /\ pc'[h] = "idle"
          /\ (Steps(h) /\ res'.kind = "NotFound") => pc[h] = "r_db"]_vars

\* C11 happens: a redirect has just answered NotFound while the cache holds
\* entries.
C11_Witness ==
    /\ res.kind = "NotFound"
    /\ cache_by_id /= EmptyMap
    /\ cache_by_url /= EmptyMap

\* Where a handler is about to hear from the store, and where it is about to
\* write to the cache.
StorePcs == {"r_db", "s_exists", "s_select", "s_insert"}
WritePcs == {"r_fill", "s_reuse_id", "s_reuse_url", "s_new_id", "s_new_url"}

\* C12: a store error other than "no row" makes redirect and shorten answer
\* InternalServerError, which is not the NotFound answer, and the failed call
\* has written to neither index: the answer is given on a store step, store
\* steps write to no index, a rejected INSERT has no other answer, and no
\* store step of a call comes after one of its cache writes.
C12_StoreErrorLeavesCache ==
    [][\A h \in Handlers : Steps(h) =>
          /\ res'.kind = "InternalServerError"
                => /\ pc[h] \in StorePcs
                   /\ pc'[h] = "idle"
                   /\ res' /= Reply("NotFound", "")
                   /\ UNCHANGED cacheVars
          /\ pc[h] \in StorePcs => UNCHANGED cacheVars
          /\ (pc[h] = "s_insert" /\ UniqueViolation(loc[h].id, loc[h].url))
                => res'.kind = "InternalServerError"
          /\ pc[h] \in WritePcs => pc'[h] \in WritePcs \cup {"idle"}
          /\ pc[h] = "idle" => pc'[h] \in {"r_cache", "s_cache"}
          /\ pc[h] \in {"r_cache", "s_cache"} => UNCHANGED cacheVars]_vars

\* C12 happens: a call has just answered InternalServerError while the other
\* handler is between its two cache writes.
C12_Witness ==
    /\ res.kind = "InternalServerError"
    /\ UpsertMidway
    /\ cache_by_id /= EmptyMap

\* C13: when the store rejects the INSERT of a shorten call because another
\* call has created the mapping for the url meanwhile, the rejected call does
\* not answer with a failure: it ends up answering Ok with the id the store
\* holds for the url.
C13_LoserReturnsWinnersId ==
    [][\A h \in Handlers :
          (/\ pc[h] = "s_insert"
           /\ Steps(h)
           /\ RowsByUrl(arg[h]) /= {}
           /\ UniqueViolation(loc[h].id, loc[h].url))
          => /\ res'.kind /= "InternalServerError"
             /\ pc'[h] = "idle" => /\ res'.kind = "Ok"
                                   /\ \E r \in RowsByUrl(arg[h]) : res'.val = r.id]_vars

\* The sweeper tick that began with SweepTick ends on this step.
TickCompletes == swpc /= "wait" /\ swpc' = "wait"

C15_EvictsIdEntryToo ==
    [][(swpc = "prune_url_retain" /\ swpc' = "wait") =>
          /\ \A r \in Records(cache_by_id') : r.url /= oldest_key
          /\ \A r \in Records(cache_by_id') :
                \E q \in Records(cache_by_url') : q.id = r.id /\ q.url = r.url]_vars

\* C16: when shorten misses the cache and finds the url in the store, the
\* row's expiration date is refreshed before the id is returned: when the
\* call returns, the store holds a row for the id whose expiration date is
\* not before the one of the record the call cached.
C16_StoreExpiryRefreshed ==
    [][\A h \in Handlers :
          (pc[h] = "s_reuse_url" /\ pc'[h] = "idle") =>
              \E r \in db' : /\ r.id = loc[h].id
                             /\ r.url = loc[h].url
                             /\ r.exp >= loc[h].exp]_vars

\* C17: redirect and shorten never remove a key from cache_by_id or from
\* cache_by_url: over every handler step both key sets stay or grow, and a
\* step over which a key set shrinks is a step of the sweeper.
C17_HandlersNeverRemove ==
    [][/\ (\E h \in Handlers : Steps(h))
            => /\ DOMAIN cache_by_id \subseteq DOMAIN cache_by_id'
               /\ DOMAIN cache_by_url \subseteq DOMAIN cache_by_url'
       /\ (\/ ~(DOMAIN cache_by_id \subseteq DOMAIN cache_by_id')
           \/ ~(DOMAIN cache_by_url \subseteq DOMAIN cache_by_url'))
            => swpc' /= swpc]_vars

\* C17 happens: shorten has just replaced the record under an existing key
\* of cache_by_id and is about to replace the one under its url.
C17_Witness ==
    \E h \in Handlers :
        /\ pc[h] = "s_reuse_url"
        /\ loc[h].id \in DOMAIN cache_by_id
        /\ cache_by_id[loc[h].id] = loc[h]
        /\ arg[h] \in DOMAIN cache_by_url
        /\ cache_by_url[arg[h]].id = loc[h].id
        /\ cache_by_url[arg[h]].exp < loc[h].exp
        /\ Size(cache_by_id) > 1

\* Where the sweeper is inside prune_cache_if_needed.
PrunePcs == {"prune_id", "prune_id_remove", "prune_id_retain",
             "prune_url", "prune_url_remove", "prune_url_retain"}

C20_KeysMatchRecords ==
    /\ \A k \in DOMAIN cache_by_id : cache_by_id[k].id = k
    /\ \A u \in DOMAIN cache_by_url : cache_by_url[u].url = u

\* C20 happens: both indices hold entries written by redirect and shorten,
\* a shorten is between its two inserts and the sweeper is inside a tick.
C20_Witness ==
    /\ Size(cache_by_id) > 1
    /\ cache_by_url /= EmptyMap
    /\ UpsertMidway
    /\ swpc \in PrunePcs
    /\ \E k \in DOMAIN cache_by_id :
          \A r \in Records(cache_by_url) : r /= cache_by_id[k]

\* C18: a failed DELETE of delete_expired_urls stops neither that task nor
\* the sweeper: after a failure the next housekeeping tick and the next
\* sweep come, and both kinds of tick come again and again for ever.
C18_TicksNeverStop ==
    /\ []<>(hkpc = "delete")
    /\ []<>(swpc = "retain_id")
    /\ (hkpc = "failed") ~> (hkpc = "delete")
    /\ (hkpc = "failed") ~> (swpc = "retain_id")

\* C18 happens: a DELETE has just failed while the table holds rows and the
\* sweeper is inside a tick.
C18_Witness ==
    /\ hkpc = "failed"
    /\ db /= {}
    /\ swpc \in PrunePcs

====
